---- MODULE Spec2Model ----
(***************************************************************************)
(* The portfolio modal of rejportfolio.com: the project dialog's open and  *)
(* close lifecycle, its image preloading with thumbnail fallback, its      *)
(* focus handling and its tool chips.  Two scripts implement the dialog:   *)
(* the main script (src/unnamed/part_000) and the earlier script.js.  The  *)
(* variable env.impl says which of the two the page loads.                 *)
(*                                                                         *)
(* Strings are sequences of tokens: a token is a run of characters holding *)
(* neither white space nor a delimiter character, or one white-space       *)
(* character (SP), or one of the characters MIDDOT (U+00B7) and ACIRC      *)
(* (U+00C2).  The empty string is << >>.                                   *)
(***************************************************************************)
EXTENDS Naturals, Sequences, FiniteSets, Bags, TLC

\* ------------------------------------------------------------------ bounds
MaxPending == 1
MaxTimers == 1
MaxFocusable == 2
MaxToolsLen == 3

\* ------------------------------------------------------------- JS strings
SP == " "
MIDDOT == "U+00B7"
ACIRC == "U+00C2"

RECURSIVE TrimStart(_)
TrimStart(s) ==
  IF s # << >> /\ Head(s) = SP THEN TrimStart(Tail(s)) ELSE s

RECURSIVE TrimEnd(_)
TrimEnd(s) ==
  IF s # << >> /\ s[Len(s)] = SP THEN TrimEnd(SubSeq(s, 1, Len(s) - 1)) ELSE s

\* String.prototype.trim
Trim(s) == TrimEnd(TrimStart(s))

StartsWith(s, d) == Len(s) >= Len(d) /\ SubSeq(s, 1, Len(d)) = d

\* String.prototype.split with a non-empty separator: the pieces between the
\* separator's occurrences, found left to right without overlap.
RECURSIVE SplitFrom(_, _, _)
SplitFrom(s, d, cur) ==
  IF s = << >> THEN << cur >>
  ELSE IF StartsWith(s, d)
       THEN << cur >> \o SplitFrom(SubSeq(s, Len(d) + 1, Len(s)), d, << >>)
       ELSE SplitFrom(Tail(s), d, Append(cur, Head(s)))

Split(s, d) == SplitFrom(s, d, << >>)

\* Array.prototype.filter(Boolean) on strings: the empty string is falsy.
RECURSIVE FilterNonEmpty(_)
FilterNonEmpty(ss) ==
  IF ss = << >> THEN << >>
  ELSE IF Head(ss) = << >> THEN FilterNonEmpty(Tail(ss))
       ELSE << Head(ss) >> \o FilterNonEmpty(Tail(ss))

MapTrim(ss) == [i \in 1..Len(ss) |-> Trim(ss[i])]

\* A JS value that is a string or null (getAttribute's result).
JsStr(s) == [has |-> TRUE, val |-> s]
JsNull == [has |-> FALSE, val |-> << >>]
Truthy(v) == v.has /\ v.val # << >>

\* ------------------------------------------------------------ tool chips
\* The own keys of TOOL_ICON_MAP with their icon file names.
TOOL_ICON_MAP ==
  { << <<"HubSpot">>, "hubspot" >>,
    << <<"Google", SP, "Sheets">>, "google-sheets" >>,
    << <<"Phone">>, "phone" >>,
    << <<"Airbnb">>, "airbnb" >>,
    << <<"VRBO">>, "vrbo" >>,
    << <<"Booking.com">>, "booking" >>,
    << <<"Zendesk">>, "zendesk" >>,
    << <<"Pipedrive">>, "pipedrive" >>,
    << <<"Zapier">>, "zapier" >>,
    << <<"G", SP, "Suite">>, "gsuite" >>,
    << <<"Gsuite">>, "gsuite" >>,
    << <<"Microsoft", SP, "365">>, "ms365" >>,
    << <<"Microsoft", SP, "Teams">>, "teams" >>,
    << <<"Outlook">>, "outlook" >>,
    << <<"Twilio">>, "twilio" >>,
    << <<"Excel">>, "excel" >>,
    << <<"Apollo">>, "apollo" >>,
    << <<"Instantly">>, "instantly" >>,
    << <<"LinkedIn", SP, "Sales", SP, "Navigator">>, "linkedin" >>,
    << <<"LinkedIn">>, "linkedin" >>,
    << <<"Asana">>, "asana" >>,
    << <<"Trello">>, "trello" >>,
    << <<"WhatsApp">>, "whatsapp" >>,
    << <<"Canva">>, "canva" >>,
    << <<"Slack">>, "slack" >> }

OwnKeys == { e[1] : e \in TOOL_ICON_MAP }

\* TOOL_ICON_MAP is an object literal, so a lookup that misses the own keys
\* goes on to Object.prototype, whose members are functions or objects.
ObjectPrototypeKeys ==
  { <<"constructor">>, <<"toString">>, <<"valueOf">>, <<"hasOwnProperty">>,
    <<"isPrototypeOf">>, <<"propertyIsEnumerable">>, <<"toLocaleString">>,
    <<"__proto__">> }

\* TOOL_ICON_MAP[toolName]: kind "string" with the file name, "inherited" (a
\* truthy member of Object.prototype, named by val) or "undefined".
IconLookup(toolName) ==
  IF toolName \in OwnKeys
  THEN [kind |-> "string", val |-> (CHOOSE e \in TOOL_ICON_MAP : e[1] = toolName)[2]]
  ELSE IF toolName \in ObjectPrototypeKeys
       THEN [kind |-> "inherited", val |-> toolName[1]]
       ELSE [kind |-> "undefined", val |-> ""]

\* createToolIcon: the chip with its accessible label, its text content, and
\* its icon image (hasIcon, with the image's source) when the lookup is truthy.
createToolIcon(toolName) ==
  LET iconFileName == IconLookup(toolName) IN
  IF iconFileName.kind # "undefined"
  THEN [label |-> toolName, text |-> << >>, hasIcon |-> TRUE,
        icon |-> << "images/", iconFileName.val, ".png" >>, pill |-> FALSE]
  ELSE [label |-> toolName, text |-> toolName, hasIcon |-> FALSE,
        icon |-> << >>, pill |-> TRUE]

\* The separator openModal passes to split: the two characters U+00C2 U+00B7.
ToolsSeparator == << ACIRC, MIDDOT >>

\* openModal's tool list: split, trim each, drop the empty ones.
toolNames(tools) == FilterNonEmpty(MapTrim(Split(tools, ToolsSeparator)))

\* The chips openModal appends to the emptied tools region.
renderTools(tools) ==
  IF tools = << >> THEN << >>
  ELSE LET names == toolNames(tools) IN
       [i \in 1..Len(names) |-> createToolIcon(names[i])]

\* ------------------------------------------------------------------ cards
\* A card's data: data-title, data-image, data-tools, data-desc (absent reads
\* as the empty string) and its .portfolio-thumb child (present or not, with or
\* without a src attribute).
NoThumb == [present |-> FALSE, hasSrc |-> FALSE, src |-> << >>]
Thumb(url) == [present |-> TRUE, hasSrc |-> TRUE, src |-> url]
ThumbNoSrc == [present |-> TRUE, hasSrc |-> FALSE, src |-> << >>]

\* The image resources of the page, and which of them the browser can load.
UrlOk == << "ok.png" >>
UrlBad == << "bad.png" >>
ThumbOk == << "thumb-ok.png" >>
ThumbBad == << "thumb-bad.png" >>
Urls == { UrlOk, UrlBad, ThumbOk, ThumbBad }
Loads == { UrlOk, ThumbOk }

\* Tools strings of the page's cards: two names around the two characters the
\* main script splits on, and two names around a middle dot alone.
ToolsT == << "HubSpot", SP, ACIRC, MIDDOT, SP, "Xyz" >>
ToolsDot == << "HubSpot", SP, MIDDOT, SP, "Excel" >>
Card(title, desc, tools, image, thumb) ==
  [title |-> title, desc |-> desc, tools |-> tools, image |-> image, thumb |-> thumb]

\* A page with few cards: an image that loads, one that fails with a thumbnail
\* that loads, and a card with no data at all.
FewCards ==
  { Card(<< "T" >>, << "D" >>, ToolsT, << SP, "ok.png", SP >>, Thumb(ThumbOk)),
    Card(<< "T" >>, << "D" >>, ToolsDot, UrlBad, Thumb(ThumbOk)),
    Card(<< >>, << >>, << >>, << >>, NoThumb) }

\* A page whose cards relate the image and the thumbnail in every way.
PageCards ==
  { Card(<< "T" >>, << "D" >>, ToolsT, << SP, "ok.png", SP >>, Thumb(ThumbOk)),
    Card(<< "T" >>, << "D" >>, ToolsDot, UrlBad, Thumb(ThumbOk)),
    Card(<< "T" >>, << >>, << >>, UrlBad, Thumb(ThumbBad)),
    Card(<< >>, << "D" >>, << >>, << SP >>, Thumb(ThumbOk)),
    Card(<< "T" >>, << "D" >>, << >>, ThumbBad, Thumb(ThumbBad)),
    Card(<< >>, << >>, ToolsT, UrlBad, ThumbNoSrc),
    Card(<< >>, << >>, << >>, << >>, NoThumb) }

\* The tools string of the spec's tool-parsing example, and the same names
\* joined by the separator the script splits on.
ExampleTools ==
  << "HubSpot", SP, MIDDOT, SP, "Zapier", SP, MIDDOT, SP, SP, MIDDOT, "Excel" >>
ExampleToolsAcirc ==
  << "HubSpot", SP, ACIRC, MIDDOT, SP, "Zapier", SP, ACIRC, MIDDOT, SP, SP,
     ACIRC, MIDDOT, "Excel" >>

ToolTokens == { "HubSpot", "Xyz", "constructor", SP, MIDDOT, ACIRC }

RECURSIVE StringsUpTo(_)
StringsUpTo(n) ==
  IF n = 0 THEN { << >> }
  ELSE LET shorter == StringsUpTo(n - 1) IN
       shorter \cup { Append(s, t) : s \in { x \in shorter : Len(x) = n - 1 }, t \in ToolTokens }

ToolsInputs == StringsUpTo(MaxToolsLen) \cup { ExampleTools, ExampleToolsAcirc }

ToolsCard(tools) ==
  [title |-> << "T" >>, desc |-> << "D" >>, tools |-> tools, image |-> << >>,
   thumb |-> NoThumb]

NoCard == [title |-> << >>, desc |-> << >>, tools |-> << >>, image |-> << >>,
           thumb |-> NoThumb]

\* --------------------------------------------------------------- elements
\* Elements that can be document.activeElement: the open button of a card, the
\* body (nothing focused; focus() on it moves nothing), an element that has no
\* focus method, and the dialog's focusable descendants in document order, the
\* close control first.
ModalElementNames == << "closeBtn", "m2", "m3", "m4" >>
PageElements == { "openBtn", "body", "noFocusFn" }

\* ------------------------------------------------------------------ state
VARIABLES
  env,                 \* the page: which script it loads (impl), its cards, the
                       \* number of focusable descendants of the dialog, whether
                       \* its stylesheet takes a hidden dialog out of rendering
                       \* (cssHides), and which of the dialog's elements its
                       \* markup lacks (missing)
  ariaHidden,          \* the dialog's aria-hidden attribute
  overflow,            \* document.body.style.overflow
  modalTitle,          \* modalTitle.textContent
  modalDesc,           \* modalDesc.textContent
  modalTools,          \* the tools region: its text and its chips
  modalImage,          \* the image's src, alt and style.display
  lastFocusedElement,  \* the controller's remembered element, or "null"
  activeElement,       \* document.activeElement
  timers,              \* pending setTimeout callbacks of openModal
  pending,             \* the bag of preloads in flight, each with what its
                       \* callbacks close over
  ev,                  \* the event handled last
  trip,                \* history: the element focused at the last open, and
                       \* whether a close has followed it with no user input
                       \* in between; after a Tab key, the element it left
  cur,                 \* history: the card of the last open, until a close
  ui                   \* the page's other behaviours: the mobile menu, the
                       \* scroll position, the header's shrink class and the
                       \* reveal of a section

vars == << env, ariaHidden, overflow, modalTitle, modalDesc, modalTools,
           modalImage, lastFocusedElement, activeElement, timers, pending, ev,
           trip, cur, ui >>

\* What close() and the claims call the modal's state.
modalState == << ariaHidden, overflow, modalTitle, modalDesc, modalTools,
                 modalImage, lastFocusedElement, activeElement >>

IsOpen == ariaHidden = "false"

EmptyImage == [src |-> << >>, alt |-> << >>, display |-> ""]
\* An emptied image that is left displayed.
EmptiedImageShown == [src |-> << >>, alt |-> << >>, display |-> ""]
HiddenImage == [src |-> << >>, alt |-> << >>, display |-> "none"]
NoTools == [text |-> << >>, chips |-> << >>]

ModalElements == { ModalElementNames[i] : i \in 1..env.nFocusable }
closeBtn == ModalElementNames[1]

\* typeof e.focus === 'function'
HasFocusMethod(e) == e \notin { "null", "noFocusFn" }

\* Whether e.focus() moves focus to e when the dialog's aria-hidden is `hidden`:
\* the body is not focusable, and a descendant of a dialog that the stylesheet
\* has taken out of rendering is not either.
TakesFocus(e, hidden) ==
  /\ HasFocusMethod(e)
  /\ e # "body"
  /\ e \in ModalElements => ~(env.cssHides /\ hidden = "true")

\* document.activeElement after e.focus() is called with focus on `from`.
FocusCall(e, from, hidden) == IF TakesFocus(e, hidden) THEN e ELSE from

\* An element that stops being rendered loses focus to the body.
FocusFixup(e, hidden) ==
  IF e \in ModalElements /\ env.cssHides /\ hidden = "true" THEN "body" ELSE e

\* The dialog's elements that the scripts look up by id at startup.
DialogElements == { "modal", "title", "image", "desc", "tools" }

\* initPortfolioModal returns before it adds any listener when an element of
\* the dialog is missing.
MainListeners == env.impl = "main" /\ env.missing = {}

\* script.js on a page that has every element of the dialog.
ScriptComplete == env.impl = "script" /\ env.missing = {}

\* ------------------------------------------------ the other behaviours
\* The mobile menu (aria-expanded of its button, the nav's active class), the
\* window's scroll position, the header's shrink class and the is-visible
\* class of a revealed section.
ShrinkThreshold == 40
ScrollPositions == { 0, ShrinkThreshold, ShrinkThreshold + 1 }

InitUi ==
  [expanded |-> FALSE, navActive |-> FALSE, scrollY |-> 0, shrink |-> FALSE,
   isVisible |-> FALSE]

\* The menu's document click listener, for a click outside the button and the
\* nav (the main script only: script.js has no menu).
ClickOutsideMenu ==
  IF env.impl = "main"
  THEN [ui EXCEPT !.expanded = FALSE, !.navActive = FALSE]
  ELSE ui

Envs(impls, cardSets, focusCounts) ==
  [impl : impls, cards : cardSets, nFocusable : focusCounts, cssHides : BOOLEAN,
   missing : { {} }]

InitDom ==
  /\ ariaHidden = "true"
  /\ overflow = ""
  /\ modalTitle = << >>
  /\ modalDesc = << >>
  /\ modalTools = NoTools
  /\ modalImage = EmptyImage
  /\ lastFocusedElement = "null"
  /\ activeElement = "body"
  /\ timers = 0
  /\ pending = EmptyBag
  /\ ev = "other"
  /\ trip = [x |-> "null", phase |-> "idle"]
  /\ cur = [open |-> FALSE, card |-> NoCard]
  /\ ui = InitUi

\* The pages explored: every card with a dialog of one focusable element (the
\* close control), and dialogs of up to MaxFocusable focusable elements with
\* the few cards.
Pages ==
  Envs({ "main", "script" }, { PageCards }, { 1 })
    \cup Envs({ "main", "script" }, { FewCards }, 1..MaxFocusable)

Init ==
  /\ env \in Pages
  /\ InitDom

\* ---------------------------------------------------------- image preload
\* A preloadImage that makes a request whatever its source is.
preloadImageNoCheck(src) == "pending"

\* preloadImage of the main script: rejects at once on a missing or blank
\* source, and otherwise waits for the browser's load or error event.
preloadImage(src) ==
  IF ~src.has \/ src.val = << >> \/ Trim(src.val) = << >>
  THEN "rejected" ELSE "pending"

\* preloadImage of script.js: rejects at once on a falsy source only.
scriptPreloadImage(src) ==
  IF ~Truthy(src) THEN "rejected" ELSE "pending"

ThumbSrcAttr(thumb) == IF thumb.hasSrc THEN JsStr(thumb.src) ELSE JsNull

\* A preload in flight with what its callbacks close over: the card, the source
\* requested, the title, and whether it is the first attempt or the fallback.
Preload(card, src, title, stage) ==
  [card |-> card, src |-> src, title |-> title, stage |-> stage]

\* A success callback that sets the source and the label and forgets to reveal
\* the image.
showImageKeepHidden(p) == [src |-> p.src, alt |-> p.title, display |-> "none"]

\* The success callbacks: show the image that loaded.
showImage(p) == [src |-> p.src, alt |-> p.title, display |-> "block"]

ProjectImage == << "Project", SP, "image" >>
scriptShowImage(p) ==
  [src |-> p.src, alt |-> IF p.title = << >> THEN ProjectImage ELSE p.title,
   display |-> ""]

\* A catch callback that gives up at once, without trying the thumbnail.
imageFailedNoFallback(img, pend, p) ==
  [img |-> [img EXCEPT !.display = "none"], pend |-> pend]

\* A catch callback that tries the source that failed once more.
imageFailedRetry(img, pend, p) ==
  [img |-> img, pend |-> pend (+) SetToBag({ Preload(p.card, p.src, p.title, 2) })]

\* openModal's catch callback of the first preload p: try the thumbnail once
\* when its src differs from the source that failed.
imageFailed(img, pend, p) ==
  LET thumb == p.card.thumb
      attr == ThumbSrcAttr(thumb)
  IN
  IF thumb.present /\ attr # JsStr(p.src)
  THEN IF preloadImage(attr) = "rejected"
       THEN [img |-> [img EXCEPT !.display = "none"], pend |-> pend]
       ELSE [img |-> img,
             pend |-> pend (+) SetToBag({ Preload(p.card, attr.val, p.title, 2) })]
  ELSE [img |-> img, pend |-> pend]

\* openProjectModal's catch callback of the first preload p.
scriptImageFailed(img, pend, p) ==
  LET thumb == p.card.thumb
      attr == ThumbSrcAttr(thumb)
  IN
  IF thumb.present /\ Truthy(attr) /\ attr # JsStr(p.src)
     /\ scriptPreloadImage(attr) = "pending"
  THEN [img |-> img,
        pend |-> pend (+) SetToBag({ Preload(p.card, attr.val, p.title, 2) })]
  ELSE [img |-> HiddenImage, pend |-> pend]

\* ------------------------------------------------------- the main script
DefaultTitle == << "Project", SP, "Details" >>
DefaultDesc == << "No", SP, "description", SP, "available.", SP >>

\* An open that shows the dialog only for a card that has a data-image.
openModalNeedsImage(card) ==
  LET title == IF card.title = << >> THEN DefaultTitle ELSE card.title
      dataImage == Trim(card.image)
      desc == IF card.desc = << >> THEN DefaultDesc ELSE card.desc
      imageSrc == IF dataImage # << >> THEN JsStr(dataImage)
                  ELSE IF card.thumb.present THEN ThumbSrcAttr(card.thumb)
                  ELSE JsStr(dataImage)
      first == Preload(card, imageSrc.val, title, 1)
      started == IF ~Truthy(imageSrc) THEN [img |-> HiddenImage, pend |-> pending]
                 ELSE IF preloadImage(imageSrc) = "rejected"
                      THEN imageFailed(HiddenImage, pending, first)
                      ELSE [img |-> HiddenImage,
                            pend |-> pending (+) SetToBag({ first })]
  IN /\ lastFocusedElement' = activeElement
     /\ modalTitle' = title
     /\ modalDesc' = desc
     /\ modalTools' = [text |-> << >>, chips |-> renderTools(card.tools)]
     /\ modalImage' = started.img
     /\ pending' = started.pend
     /\ ariaHidden' = IF dataImage = << >> THEN ariaHidden ELSE "false"
     /\ overflow' = IF dataImage = << >> THEN overflow ELSE "hidden"
     /\ timers' = timers + 1
     /\ UNCHANGED activeElement

\* An open that tries the thumbnail first and the data-image only without one.
openModalThumbFirst(card) ==
  LET title == IF card.title = << >> THEN DefaultTitle ELSE card.title
      dataImage == Trim(card.image)
      desc == IF card.desc = << >> THEN DefaultDesc ELSE card.desc
      imageSrc == IF card.thumb.present /\ Truthy(ThumbSrcAttr(card.thumb))
                  THEN ThumbSrcAttr(card.thumb) ELSE JsStr(dataImage)
      first == Preload(card, imageSrc.val, title, 1)
      started == IF ~Truthy(imageSrc) THEN [img |-> HiddenImage, pend |-> pending]
                 ELSE IF preloadImage(imageSrc) = "rejected"
                      THEN imageFailed(HiddenImage, pending, first)
                      ELSE [img |-> HiddenImage,
                            pend |-> pending (+) SetToBag({ first })]
  IN /\ lastFocusedElement' = activeElement
     /\ modalTitle' = title
     /\ modalDesc' = desc
     /\ modalTools' = [text |-> << >>, chips |-> renderTools(card.tools)]
     /\ modalImage' = started.img
     /\ pending' = started.pend
     /\ ariaHidden' = "false"
     /\ overflow' = "hidden"
     /\ timers' = timers + 1
     /\ UNCHANGED activeElement

\* openModal(card)
openModal(card) ==
  LET title == IF card.title = << >> THEN DefaultTitle ELSE card.title
      dataImage == Trim(card.image)
      desc == IF card.desc = << >> THEN DefaultDesc ELSE card.desc
      imageSrc == IF dataImage # << >> THEN JsStr(dataImage)
                  ELSE IF card.thumb.present THEN ThumbSrcAttr(card.thumb)
                  ELSE JsStr(dataImage)
      first == Preload(card, imageSrc.val, title, 1)
      started == IF ~Truthy(imageSrc) THEN [img |-> HiddenImage, pend |-> pending]
                 ELSE IF preloadImage(imageSrc) = "rejected"
                      THEN imageFailed(HiddenImage, pending, first)
                      ELSE [img |-> HiddenImage,
                            pend |-> pending (+) SetToBag({ first })]
  IN /\ lastFocusedElement' = activeElement
     /\ modalTitle' = title
     /\ modalDesc' = desc
     /\ modalTools' = [text |-> << >>, chips |-> renderTools(card.tools)]
     /\ modalImage' = started.img
     /\ pending' = started.pend
     /\ ariaHidden' = "false"
     /\ overflow' = "hidden"
     /\ timers' = timers + 1
     /\ UNCHANGED activeElement

\* What closeModal does to the remembered element and to the focus.
restoreFocus ==
  IF lastFocusedElement # "null" /\ HasFocusMethod(lastFocusedElement)
  THEN /\ activeElement' =
            FocusFixup(FocusCall(lastFocusedElement, activeElement, "true"), "true")
       /\ lastFocusedElement' = "null"
  ELSE /\ activeElement' = FocusFixup(activeElement, "true")
       /\ UNCHANGED lastFocusedElement

\* A close that leaves the body's scroll lock in place.
closeModalKeepLock ==
  /\ ariaHidden' = "true"
  /\ UNCHANGED overflow
  /\ modalTitle' = << >>
  /\ modalDesc' = << >>
  /\ modalTools' = NoTools
  /\ modalImage' = EmptyImage
  /\ restoreFocus
  /\ UNCHANGED << timers, pending >>

\* closeModal()
closeModal ==
  /\ ariaHidden' = "true"
  /\ overflow' = ""
  /\ modalTitle' = << >>
  /\ modalDesc' = << >>
  /\ modalTools' = NoTools
  /\ modalImage' = EmptyImage
  /\ restoreFocus
  /\ UNCHANGED << timers, pending >>

\* History kept beside the handlers.
TripOpened == trip' = [x |-> activeElement, phase |-> "opened"]
TripClosed ==
  trip' = IF trip.phase = "opened" THEN [trip EXCEPT !.phase = "closed"]
          ELSE [x |-> "null", phase |-> "idle"]
TripIdle == trip' = [x |-> "null", phase |-> "idle"]
TripTab == trip' = [x |-> activeElement, phase |-> "tab"]
CurOpened(card) == cur' = [open |-> TRUE, card |-> card]
CurClosed == cur' = [open |-> FALSE, card |-> NoCard]

\* The model's bounds on the callbacks in flight.
WithinBounds == BagCardinality(pending') <= MaxPending /\ timers' <= MaxTimers

\* A click on a card's [data-open-project] button.
OpenButtonClick(card) ==
  /\ MainListeners
  /\ openModal(card)
  /\ WithinBounds
  /\ ev' = "open"
  /\ TripOpened
  /\ CurOpened(card)
  /\ ui' = ClickOutsideMenu
  /\ UNCHANGED env

\* A key pressed with the focus inside a card: Enter and Space open it.
CardKeydown(card, key) ==
  /\ MainListeners
  /\ activeElement = "openBtn"
  /\ IF key \in { "Enter", SP }
     THEN /\ openModal(card)
          /\ WithinBounds
          /\ ev' = "open"
          /\ TripOpened
          /\ CurOpened(card)
     ELSE /\ ev' = "other"
          /\ TripIdle
          /\ UNCHANGED << modalState, timers, pending, cur >>
  /\ UNCHANGED << env, ui >>

\* A click on a [data-close-modal] element.
CloseClick ==
  /\ MainListeners
  /\ closeModal
  /\ ev' = "close"
  /\ TripClosed
  /\ CurClosed
  /\ ui' = ClickOutsideMenu
  /\ UNCHANGED env

\* A keydown listener that closes on Escape without looking at aria-hidden.
DocumentKeydownAnyState(key) ==
  /\ MainListeners
  /\ IF key = "Escape"
     THEN /\ closeModal
          /\ TripClosed
          /\ CurClosed
     ELSE /\ TripIdle
          /\ UNCHANGED << modalState, timers, pending, cur >>
  /\ ev' = IF key = "Escape" THEN "Escape" ELSE "other"
  /\ UNCHANGED << env, ui >>

\* The document's keydown listener: Escape closes an open dialog.
DocumentKeydown(key) ==
  /\ MainListeners
  /\ IF key = "Escape" /\ ariaHidden = "false"
     THEN /\ closeModal
          /\ TripClosed
          /\ CurClosed
     ELSE /\ TripIdle
          /\ UNCHANGED << modalState, timers, pending, cur >>
  /\ ev' = IF key = "Escape" THEN "Escape" ELSE "other"
  /\ UNCHANGED << env, ui >>

\* A timer callback that leaves the focus where it is.
FocusTimerNoFocus ==
  /\ MainListeners
  /\ timers > 0
  /\ timers' = timers - 1
  /\ ev' = "timer"
  /\ UNCHANGED << env, ui, ariaHidden, overflow, modalTitle, modalDesc, modalTools,
                  modalImage, lastFocusedElement, activeElement, pending, trip, cur >>

\* The callback of openModal's setTimeout: closeBtn.focus().
FocusTimer ==
  /\ MainListeners
  /\ timers > 0
  /\ timers' = timers - 1
  /\ activeElement' = FocusCall(closeBtn, activeElement, ariaHidden)
  /\ ev' = "timer"
  /\ UNCHANGED << env, ui, ariaHidden, overflow, modalTitle, modalDesc, modalTools,
                  modalImage, lastFocusedElement, pending, trip, cur >>

\* A settlement that drops the result of a preload whose open is no longer the
\* current one.
PreloadSettledIfCurrent(p) ==
  /\ MainListeners
  /\ BagIn(p, pending)
  /\ IF cur.open /\ cur.card = p.card /\ p.src \in Loads
     THEN modalImage' = showImage(p)
     ELSE UNCHANGED modalImage
  /\ pending' = pending (-) SetToBag({ p })
  /\ ev' = "settle"
  /\ UNCHANGED << env, ui, ariaHidden, overflow, modalTitle, modalDesc, modalTools,
                  lastFocusedElement, activeElement, timers, trip, cur >>

\* The browser reports the outcome of a preload in flight, and the promise's
\* callbacks run.
PreloadSettled(p) ==
  /\ MainListeners
  /\ BagIn(p, pending)
  /\ LET rest == pending (-) SetToBag({ p })
         failed == imageFailed(modalImage, rest, p)
     IN IF p.src \in Loads
        THEN modalImage' = showImage(p) /\ pending' = rest
        ELSE IF p.stage = 1
             THEN modalImage' = failed.img /\ pending' = failed.pend
             ELSE /\ modalImage' = [modalImage EXCEPT !.display = "none"]
                  /\ pending' = rest
  /\ ev' = "settle"
  /\ UNCHANGED << env, ui, ariaHidden, overflow, modalTitle, modalDesc, modalTools,
                  lastFocusedElement, activeElement, timers, trip, cur >>

\* The dialog's focusable descendants, as the keydown listener's
\* querySelectorAll finds them at the key press.
focusableElements == [i \in 1..env.nFocusable |-> ModalElementNames[i]]

\* The browser's own Tab order: the page's button, then the dialog's focusable
\* descendants while the dialog is rendered.
TabOrder ==
  << "openBtn" >> \o
  (IF env.cssHides /\ ariaHidden = "true" THEN << >> ELSE focusableElements)

IndexIn(seq, e) == CHOOSE i \in 1..Len(seq) : seq[i] = e

\* Where the browser moves the focus on Tab or Shift+Tab when no listener
\* prevents it.
DefaultTab(e, shiftKey) ==
  LET order == TabOrder
      n == Len(order)
  IN IF \E i \in 1..n : order[i] = e
     THEN LET i == IndexIn(order, e) IN
          IF shiftKey THEN order[IF i = 1 THEN n ELSE i - 1]
          ELSE order[IF i = n THEN 1 ELSE i + 1]
     ELSE IF shiftKey THEN order[n] ELSE order[1]

\* A keydown listener that never prevents the browser's own Tab move.
trapFocusNoWrap(shiftKey) == DefaultTab(activeElement, shiftKey)

\* The dialog's keydown listener on Tab: the element the focus ends on.
trapFocus(shiftKey) ==
  IF ariaHidden = "false"
  THEN LET firstElement == focusableElements[1]
           lastElement == focusableElements[Len(focusableElements)]
       IN IF shiftKey /\ activeElement = firstElement THEN lastElement
          ELSE IF ~shiftKey /\ activeElement = lastElement THEN firstElement
          ELSE DefaultTab(activeElement, shiftKey)
  ELSE DefaultTab(activeElement, shiftKey)

\* Tab or Shift+Tab pressed with the focus inside the dialog.
ModalKeydown(shiftKey) ==
  /\ MainListeners
  /\ activeElement \in ModalElements
  /\ activeElement' = trapFocus(shiftKey)
  /\ ev' = IF shiftKey THEN "ShiftTab" ELSE "Tab"
  /\ TripTab
  /\ UNCHANGED << env, ui, ariaHidden, overflow, modalTitle, modalDesc, modalTools,
                  modalImage, lastFocusedElement, timers, pending, cur >>

\* Tab or Shift+Tab pressed where no listener of the page handles it.
BrowserTab(shiftKey) ==
  /\ ~(MainListeners /\ activeElement \in ModalElements)
  /\ activeElement' = DefaultTab(activeElement, shiftKey)
  /\ ev' = IF shiftKey THEN "ShiftTab" ELSE "Tab"
  /\ TripTab
  /\ UNCHANGED << env, ui, ariaHidden, overflow, modalTitle, modalDesc, modalTools,
                  modalImage, lastFocusedElement, timers, pending, cur >>

\* The user focuses an element of the page (or none: the body).
UserFocus(e) ==
  /\ e \in PageElements
  /\ e # activeElement
  /\ activeElement' = e
  /\ ev' = "other"
  /\ TripIdle
  /\ UNCHANGED << env, ui, ariaHidden, overflow, modalTitle, modalDesc, modalTools,
                  modalImage, lastFocusedElement, timers, pending, cur >>

\* ------------------------------------------------------------- script.js
\* openProjectModal(card)
openProjectModal(card) ==
  LET title == card.title
      dataImage == Trim(card.image)
      attr == ThumbSrcAttr(card.thumb)
      finalSrc == IF dataImage # << >> THEN dataImage
                  ELSE IF card.thumb.present /\ Truthy(attr) THEN attr.val
                  ELSE << >>
      first == Preload(card, finalSrc, title, 1)
  IN /\ lastFocusedElement' = activeElement
     /\ modalTitle' = title
     /\ modalDesc' = card.desc
     /\ modalTools' = [text |-> card.tools, chips |-> << >>]
     /\ IF finalSrc # << >>
        THEN /\ modalImage' = [modalImage EXCEPT !.display = "none"]
             /\ pending' =
                  IF scriptPreloadImage(JsStr(finalSrc)) = "rejected" THEN pending
                  ELSE pending (+) SetToBag({ first })
        ELSE /\ modalImage' = HiddenImage
             /\ UNCHANGED pending
     /\ ariaHidden' = "false"
     /\ overflow' = "hidden"
     /\ activeElement' = FocusCall(closeBtn, activeElement, "false")
     /\ UNCHANGED timers

\* closeProjectModal(): the same statements as closeModal.
closeProjectModal ==
  /\ ariaHidden' = "true"
  /\ overflow' = ""
  /\ modalTitle' = << >>
  /\ modalDesc' = << >>
  /\ modalTools' = NoTools
  /\ modalImage' = EmptyImage
  /\ IF lastFocusedElement # "null" /\ HasFocusMethod(lastFocusedElement)
     THEN /\ activeElement' =
               FocusFixup(FocusCall(lastFocusedElement, activeElement, "true"), "true")
          /\ lastFocusedElement' = "null"
     ELSE /\ activeElement' = FocusFixup(activeElement, "true")
          /\ UNCHANGED lastFocusedElement
  /\ UNCHANGED << timers, pending >>

ScriptOpenButtonClick(card) ==
  /\ ScriptComplete
  /\ openProjectModal(card)
  /\ WithinBounds
  /\ ev' = "open"
  /\ TripOpened
  /\ CurOpened(card)
  /\ UNCHANGED << env, ui >>

ScriptCardKeydown(card, key) ==
  /\ ScriptComplete
  /\ activeElement = "openBtn"
  /\ IF key \in { "Enter", SP }
     THEN /\ openProjectModal(card)
          /\ WithinBounds
          /\ ev' = "open"
          /\ TripOpened
          /\ CurOpened(card)
     ELSE /\ ev' = "other"
          /\ TripIdle
          /\ UNCHANGED << modalState, timers, pending, cur >>
  /\ UNCHANGED << env, ui >>

ScriptCloseClick ==
  /\ ScriptComplete
  /\ closeProjectModal
  /\ ev' = "close"
  /\ TripClosed
  /\ CurClosed
  /\ UNCHANGED << env, ui >>

ScriptDocumentKeydown(key) ==
  /\ ScriptComplete
  /\ IF key = "Escape" /\ ariaHidden = "false"
     THEN /\ closeProjectModal
          /\ TripClosed
          /\ CurClosed
     ELSE /\ TripIdle
          /\ UNCHANGED << modalState, timers, pending, cur >>
  /\ ev' = IF key = "Escape" THEN "Escape" ELSE "other"
  /\ UNCHANGED << env, ui >>

ScriptPreloadSettled(p) ==
  /\ ScriptComplete
  /\ BagIn(p, pending)
  /\ LET rest == pending (-) SetToBag({ p })
         failed == scriptImageFailed(modalImage, rest, p)
     IN IF p.src \in Loads
        THEN modalImage' = scriptShowImage(p) /\ pending' = rest
        ELSE IF p.stage = 1
             THEN modalImage' = failed.img /\ pending' = failed.pend
             ELSE modalImage' = HiddenImage /\ pending' = rest
  /\ ev' = "settle"
  /\ UNCHANGED << env, ui, ariaHidden, overflow, modalTitle, modalDesc, modalTools,
                  lastFocusedElement, activeElement, timers, trip, cur >>

\* ------------------------------------- script.js with elements missing
\* script.js adds its listeners whatever the lookups found; openProjectModal
\* and closeProjectModal test the dialog only, and a statement that reaches a
\* missing element throws a TypeError, which ends the handler there.  The
\* elements are reached in the order title, description, tools, image.
openProjectModalIncomplete(card) ==
  LET m == env.missing IN
  IF "modal" \in m
  THEN UNCHANGED << modalState, timers, pending >> /\ ev' = "other"
  ELSE /\ lastFocusedElement' = activeElement
       /\ modalTitle' = IF "title" \in m THEN modalTitle ELSE card.title
       /\ modalDesc' = IF { "title", "desc" } \cap m # {} THEN modalDesc
                       ELSE card.desc
       /\ modalTools' = IF { "title", "desc", "tools" } \cap m # {} THEN modalTools
                        ELSE [text |-> card.tools, chips |-> << >>]
       /\ UNCHANGED << ariaHidden, overflow, modalImage, activeElement, timers,
                       pending >>
       /\ ev' = "error"

closeProjectModalIncomplete ==
  LET m == env.missing IN
  IF "modal" \in m
  THEN UNCHANGED << modalState, timers, pending >> /\ ev' = "other"
  ELSE /\ ariaHidden' = "true"
       /\ overflow' = ""
       /\ modalTitle' = IF "title" \in m THEN modalTitle ELSE << >>
       /\ modalDesc' = IF { "title", "desc" } \cap m # {} THEN modalDesc ELSE << >>
       /\ modalTools' = IF { "title", "desc", "tools" } \cap m # {} THEN modalTools
                        ELSE NoTools
       /\ UNCHANGED << modalImage, lastFocusedElement, activeElement, timers,
                       pending >>
       /\ ev' = "error"

\* A click on a card's open button, or Enter or Space on the card.
ScriptOpenIncomplete(card) ==
  /\ env.impl = "script"
  /\ env.missing # {}
  /\ openProjectModalIncomplete(card)
  /\ TripIdle
  /\ UNCHANGED << env, ui, cur >>

\* A click on a [data-close-modal] element.
ScriptCloseIncomplete ==
  /\ env.impl = "script"
  /\ env.missing # {}
  /\ closeProjectModalIncomplete
  /\ TripIdle
  /\ UNCHANGED << env, ui, cur >>

\* The document's keydown listener of script.js.
ScriptKeydownIncomplete(key) ==
  /\ env.impl = "script"
  /\ env.missing # {}
  /\ IF key = "Escape" /\ "modal" \notin env.missing /\ ariaHidden = "false"
     THEN closeProjectModalIncomplete
     ELSE UNCHANGED << modalState, timers, pending >> /\ ev' = "other"
  /\ TripIdle
  /\ UNCHANGED << env, ui, cur >>

\* ------------------------------------------- the other behaviours' events
\* A click on the mobile menu's button.
MenuButtonClick ==
  /\ env.impl = "main"
  /\ ui' = [ui EXCEPT !.expanded = ~ui.expanded, !.navActive = ~ui.navActive]
  /\ ev' = "menu"
  /\ TripIdle
  /\ UNCHANGED << env, modalState, timers, pending, cur >>

\* A click on a link of the nav to a section of the page: the menu closes, and
\* the smooth-scroll listener focuses the section (the main script only).
NavLinkClick ==
  /\ ui' = IF env.impl = "main"
           THEN [ui EXCEPT !.expanded = FALSE, !.navActive = FALSE] ELSE ui
  /\ activeElement' = IF env.impl = "main" THEN "section" ELSE activeElement
  /\ ev' = "nav"
  /\ TripIdle
  /\ UNCHANGED << env, ariaHidden, overflow, modalTitle, modalDesc, modalTools,
                  modalImage, lastFocusedElement, timers, pending, cur >>

\* A click on the page outside the menu, the cards and the dialog.
OutsideClick ==
  /\ ui' = ClickOutsideMenu
  /\ ev' = "other"
  /\ TripIdle
  /\ UNCHANGED << env, modalState, timers, pending, cur >>

\* The window's scroll event at position y: the throttle lets updateHeader
\* run or not.
WindowScroll(y, runs) ==
  /\ y # ui.scrollY
  /\ ui' = [ui EXCEPT !.scrollY = y,
                      !.shrink = IF runs THEN y > ShrinkThreshold ELSE @]
  /\ ev' = "scroll"
  /\ TripIdle
  /\ UNCHANGED << env, modalState, timers, pending, cur >>

\* The IntersectionObserver reports a section entering the viewport.
Intersect ==
  /\ ~ui.isVisible
  /\ ui' = [ui EXCEPT !.isVisible = TRUE]
  /\ ev' = "reveal"
  /\ TripIdle
  /\ UNCHANGED << env, modalState, timers, pending, cur >>

\* ------------------------------------------------------- specifications
Keys == { "Enter", SP, "Escape", "x" }

Next ==
  \/ \E card \in env.cards : OpenButtonClick(card)
  \/ \E card \in env.cards, key \in Keys : CardKeydown(card, key)
  \/ CloseClick
  \/ \E key \in Keys : DocumentKeydown(key)
  \/ \E shiftKey \in BOOLEAN : ModalKeydown(shiftKey)
  \/ FocusTimer
  \/ \E p \in BagToSet(pending) : PreloadSettled(p)
  \/ \E card \in env.cards : ScriptOpenButtonClick(card)
  \/ \E card \in env.cards, key \in Keys : ScriptCardKeydown(card, key)
  \/ ScriptCloseClick
  \/ \E key \in Keys : ScriptDocumentKeydown(key)
  \/ \E p \in BagToSet(pending) : ScriptPreloadSettled(p)
  \/ \E shiftKey \in BOOLEAN : BrowserTab(shiftKey)
  \/ \E e \in PageElements : UserFocus(e)

Spec == Init /\ [][Next]_vars

\* Tool parsing on its own: a page of one card whose tools string is drawn from
\* the strings of up to MaxToolsLen tokens and the spec's example, opened and
\* closed by the main script.
ToolsPages ==
  { [impl |-> "main", cards |-> { ToolsCard(tools) }, nFocusable |-> 1,
     cssHides |-> FALSE, missing |-> {}] : tools \in ToolsInputs }

InitTools ==
  /\ env \in ToolsPages
  /\ InitDom

NextTools ==
  \/ \E card \in env.cards : OpenButtonClick(card)
  \/ CloseClick
  \/ FocusTimer

SpecTools == InitTools /\ [][NextTools]_vars

\* Every shape of card on a page of its own: each of the title, the description
\* and the tools present or not, the data-image absent, blank, loading or
\* failing, and the thumbnail absent, without src, with an empty or a blank
\* src, loading, failing, or the same failing resource as the data-image.  The dialog is opened by a
\* click and closed by a click or by Escape.
CardImages == { << >>, << SP >>, UrlOk, UrlBad }
CardThumbs ==
  { NoThumb, ThumbNoSrc, Thumb(<< >>), Thumb(<< SP >>), Thumb(ThumbOk),
    Thumb(ThumbBad), Thumb(UrlBad) }
AllCards ==
  { Card(title, desc, tools, image, thumb) :
      title \in { << >>, << "T" >> }, desc \in { << >>, << "D" >> },
      tools \in { << >>, ToolsT }, image \in CardImages, thumb \in CardThumbs }

CardPages ==
  { [impl |-> impl, cards |-> { card }, nFocusable |-> 1, cssHides |-> TRUE,
     missing |-> {}] : impl \in { "main", "script" }, card \in AllCards }

InitCards ==
  /\ env \in CardPages
  /\ InitDom

NextCards ==
  \/ \E card \in env.cards : OpenButtonClick(card)
  \/ CloseClick
  \/ \E key \in Keys : DocumentKeydown(key)
  \/ FocusTimer
  \/ \E p \in BagToSet(pending) : PreloadSettled(p)
  \/ \E card \in env.cards : ScriptOpenButtonClick(card)
  \/ ScriptCloseClick
  \/ \E key \in Keys : ScriptDocumentKeydown(key)
  \/ \E p \in BagToSet(pending) : ScriptPreloadSettled(p)

SpecCards == InitCards /\ [][NextCards]_vars

\* The page of few cards with the event loop's guarantee that a timer that is
\* due runs.
FairPages == Envs({ "main", "script" }, { FewCards }, { 1 })

InitFair ==
  /\ env \in FairPages
  /\ InitDom

SpecFair == InitFair /\ [][Next]_vars /\ WF_vars(FocusTimer)

\* Startup on pages that lack any subset of the dialog's elements (none
\* included), with one card, together with the page's other behaviours.
StartupCards ==
  { Card(<< "T" >>, << "D" >>, ToolsT, UrlOk, NoThumb) }

StartupPages ==
  { [impl |-> impl, cards |-> StartupCards,
     nFocusable |-> IF "modal" \in missing THEN 0 ELSE 1,
     cssHides |-> FALSE, missing |-> missing] :
       impl \in { "main", "script" }, missing \in SUBSET DialogElements }

InitStartup ==
  /\ env \in StartupPages
  /\ InitDom

NextStartup ==
  \/ Next
  \/ \E card \in env.cards : ScriptOpenIncomplete(card)
  \/ ScriptCloseIncomplete
  \/ \E key \in Keys : ScriptKeydownIncomplete(key)
  \/ MenuButtonClick
  \/ NavLinkClick
  \/ OutsideClick
  \/ \E y \in ScrollPositions, runs \in BOOLEAN : WindowScroll(y, runs)
  \/ Intersect

SpecStartup == InitStartup /\ [][NextStartup]_vars

\* ================================================================ claims
FirstFocusable == ModalElementNames[1]
LastFocusable == ModalElementNames[env.nFocusable]
Visible(img) == img.display # "none"
HiddenAndEmpty(img) == img.display = "none" /\ img.src = << >> /\ img.alt = << >>

\* The title a card resolves to: its own, or the script's placeholder.
ResolvedTitle(card) ==
  IF card.title # << >> THEN card.title
  ELSE IF env.impl = "main" THEN DefaultTitle ELSE ProjectImage

\* A card's image locator and its thumbnail's URL, as the page gives them.
Locator(card) == Trim(card.image)
ThumbUrl(card) == IF card.thumb.present /\ card.thumb.hasSrc THEN card.thumb.src ELSE << >>

Copies(p, bag) == IF BagIn(p, bag) THEN CopiesIn(p, bag) ELSE 0

\* The preload p leaves the bag of preloads in flight in this step: it settles.
Settles(p) == ev' = "settle" /\ Copies(p, pending') < Copies(p, pending)

\* Everything close() clears is cleared, and the dialog is marked hidden.
ClosedAndCleared ==
  /\ ariaHidden' = "true"
  /\ overflow' = ""
  /\ modalTitle' = << >>
  /\ modalDesc' = << >>
  /\ modalTools' = NoTools
  /\ modalImage' = EmptyImage

\* C1: after open(card) with the focus on a focus-capable element X, then
\* close(), and after every callback of the open has run (no timer and no
\* preload is left), the focus is on X.
C1_RoundTripFocus ==
  (/\ trip.phase = "closed"
   /\ timers = 0
   /\ pending = EmptyBag
   /\ TakesFocus(trip.x, "true"))
  => activeElement = trip.x

BothFailOrAbsent(card) ==
  /\ Locator(card) = << >> \/ Locator(card) \notin Loads
  /\ ThumbUrl(card) = << >> \/ ThumbUrl(card) \notin Loads

\* C4: for a card where image and thumbnail both fail or are absent, once all
\* preloads started by open(card) have settled the modal image is hidden and
\* its source and label are empty.
C4_HiddenAfterSettling ==
  (/\ cur.open
   /\ BothFailOrAbsent(cur.card)
   /\ \A p \in BagToSet(pending) : p.card # cur.card)
  => HiddenAndEmpty(modalImage)

\* C5: close() called while the modal is Closed leaves the whole modal state
\* unchanged.
C5_CloseIdempotent ==
  [][(ev' = "close" /\ ariaHidden = "true") => UNCHANGED modalState]_vars

\* C6: an Escape key press closes the modal if and only if it is Open; when it
\* is Closed the press changes no modal state and moves no focus.
C6_EscapeOnlyWhenOpen ==
  [][ev' = "Escape"
       => IF ariaHidden = "false"
          THEN /\ ClosedAndCleared
               /\ lastFocusedElement # "null" /\ TakesFocus(lastFocusedElement, "true")
                    => activeElement' = lastFocusedElement
          ELSE UNCHANGED << modalState, timers, pending >>]_vars

C6_Witness ==
  /\ ev = "Escape"
  /\ trip.phase = "closed"
  /\ ariaHidden = "true"
  /\ activeElement = trip.x

\* C7: while the modal is Open, Tab on the last focusable descendant of the
\* dialog moves the focus to the first and Shift+Tab on the first moves it to
\* the last, whatever their number; while it is Closed neither key wraps.
C7_FocusTrap ==
  [][(env.impl = "main" /\ activeElement \in ModalElements)
       => /\ (ev' = "Tab" /\ ariaHidden = "false" /\ activeElement = LastFocusable)
               => activeElement' = FirstFocusable
          /\ (ev' = "ShiftTab" /\ ariaHidden = "false" /\ activeElement = FirstFocusable)
               => activeElement' = LastFocusable
          /\ (ev' = "Tab" /\ ariaHidden = "true" /\ activeElement = LastFocusable)
               => activeElement' \notin ModalElements
          /\ (ev' = "ShiftTab" /\ ariaHidden = "true" /\ activeElement = FirstFocusable)
               => activeElement' \notin ModalElements]_vars

C7_Witness ==
  /\ env.impl = "main"
  /\ env.nFocusable > 1
  /\ ariaHidden = "false"
  /\ ev = "Tab"
  /\ trip = [x |-> LastFocusable, phase |-> "tab"]
  /\ activeElement = FirstFocusable

\* The names the claim's parsing gives: split on the middle dot, trim, drop the
\* empty segments.
MiddleDotNames(tools) == FilterNonEmpty(MapTrim(Split(tools, << MIDDOT >>)))
IconChip(name, file) ==
  [label |-> name, text |-> << >>, hasIcon |-> TRUE,
   icon |-> << "images/", file, ".png" >>, pill |-> FALSE]

\* C8: open(card) renders one chip per name of the tools string split on the
\* middle dot, trimmed, empty segments dropped, in order; for the example
\* string the chips are exactly HubSpot, Zapier, Excel with their icons.
C8_ToolParsing ==
  (ev = "open" /\ env.impl = "main")
  => /\ [i \in 1..Len(modalTools.chips) |-> modalTools.chips[i].label]
          = MiddleDotNames(cur.card.tools)
     /\ cur.card.tools = ExampleTools
          => modalTools.chips = << IconChip(<< "HubSpot" >>, "hubspot"),
                                   IconChip(<< "Zapier" >>, "zapier"),
                                   IconChip(<< "Excel" >>, "excel") >>

\* C9: a chip whose tool name is not a key of the icon mapping is text-only,
\* its text the name; a chip carries an icon only for one of the mapping's keys.
C9_UnknownToolTextOnly ==
  \A i \in 1..Len(modalTools.chips) :
    LET chip == modalTools.chips[i] IN
    /\ chip.label \notin OwnKeys => (~chip.hasIcon /\ chip.text = chip.label)
    /\ chip.hasIcon => chip.label \in OwnKeys

\* C10: after every close(), lastFocusedElement is none.
C10_ClearedAfterClose ==
  (ev = "close" \/ (ev = "Escape" /\ trip.phase = "closed"))
  => lastFocusedElement = "null"

\* The dialog's state and the controller's: everything but where the focus is.
dialogState == << ariaHidden, overflow, modalTitle, modalDesc, modalTools,
                  modalImage, lastFocusedElement, timers, pending >>

\* C11: on a page that lacks an element of the dialog, no event changes the
\* dialog's state or ends in an error, and the menu, the header shrink and the
\* reveal keep responding to their events.
C11_InitAborts ==
  [][env.missing # {}
       => /\ UNCHANGED dialogState
          /\ ev' # "error"
          /\ ev' = "menu" => ui'.expanded = ~ui.expanded
          /\ ev' = "reveal" => ui'.isVisible]_vars

\* C12: no open and no close removes a preload in flight, and a preload that
\* succeeds writes the image with its source and shows it whatever the dialog
\* has become since its open: closed, or showing another card.
C12_NoCancellation ==
  [][/\ ev' \in { "open", "close", "Escape" }
          => \A p \in BagToSet(pending) : Copies(p, pending') >= Copies(p, pending)
     /\ \A p \in BagToSet(pending) :
          (Settles(p) /\ p.src \in Loads)
          => /\ modalImage'.src = p.src
             /\ Visible(modalImage')]_vars

\* The dialog shows one card's title over the image of another card, whose
\* preload settled after the second open.
C12_Witness ==
  /\ ev = "settle"
  /\ cur.open
  /\ ariaHidden = "false"
  /\ modalTitle = (IF cur.card.title # << >> \/ env.impl = "script"
                   THEN cur.card.title ELSE DefaultTitle)
  /\ Visible(modalImage)
  /\ modalImage.src \in Loads
  /\ modalImage.src \notin { Locator(cur.card), ThumbUrl(cur.card) }

\* C13: the body's scrolling is suppressed exactly when the dialog is marked
\* not hidden; an open sets both, a close resets both, and no other event
\* (settlement, deferred focus, Tab, Escape while closed, other keys, focus
\* moves) changes either.
C13_ScrollLockIffOpen ==
  /\ []((overflow = "hidden") <=> (ariaHidden = "false"))
  /\ [][/\ ev' = "open" => (ariaHidden' = "false" /\ overflow' = "hidden")
        /\ ev' = "close" => (ariaHidden' = "true" /\ overflow' = "")
        /\ (ev' \notin { "open", "close" } /\ ~(ev' = "Escape" /\ ariaHidden = "false"))
             => UNCHANGED << ariaHidden, overflow >>]_vars

\* The deferred focus move has run in an open dialog, and the lock is on.
C13_Witness ==
  /\ ev = "timer"
  /\ ariaHidden = "false"
  /\ overflow = "hidden"
  /\ activeElement = closeBtn

\* C14: while the dialog is closed, its title, description, tools region and
\* the image's source and label are empty.
C14_ClearedWhileClosed ==
  ariaHidden = "true"
  => /\ modalTitle = << >>
     /\ modalDesc = << >>
     /\ modalTools = NoTools
     /\ modalImage.src = << >>
     /\ modalImage.alt = << >>

\* The preloads a step starts, given the preloads that were in flight and were
\* not settled by it.
Started(before) == pending' (-) before

\* C15: an open starts at most one preload, a first attempt for its card; a
\* settlement starts at most one, and only as the failure of a first attempt
\* that starts the fallback for its card's thumbnail URL, which differs from
\* the source that failed; a success and the fallback's failure start none, and
\* no other event starts or removes one.
C15_AtMostTwoPreloads ==
  [][/\ ev' = "open"
          => /\ BagCardinality(Started(pending)) <= 1
             /\ \A q \in BagToSet(Started(pending)) :
                  q.stage = 1 /\ q.card = cur'.card
     /\ \A p \in BagToSet(pending) :
          Settles(p)
          => LET started == Started(pending (-) SetToBag({ p })) IN
             /\ BagCardinality(started) <= 1
             /\ \A q \in BagToSet(started) :
                  /\ p.stage = 1
                  /\ p.src \notin Loads
                  /\ q.stage = 2
                  /\ q.card = p.card
                  /\ q.src = ThumbUrl(p.card)
                  /\ q.src # p.src
     /\ ev' \notin { "open", "settle" } => UNCHANGED pending]_vars

\* The first attempt has failed and the fallback for the thumbnail is in flight.
C15_Witness ==
  /\ ev = "settle"
  /\ \E q \in BagToSet(pending) :
       /\ q.stage = 2
       /\ q.src = ThumbUrl(q.card)
       /\ Locator(q.card) = UrlBad

\* The source an open tries first: the trimmed data-image when it is not
\* empty, else the thumbnail's URL when there is one, else none (the empty
\* string).
FirstSource(card) ==
  IF Locator(card) # << >> THEN Locator(card) ELSE ThumbUrl(card)

\* C16: an open starts no preload but one for the first source of its card;
\* it starts that one unless the source is blank and the script rejects a
\* blank source without a request; and with no source it starts none and
\* leaves the image hidden with empty source and label.
C16_FirstSource ==
  [][ev' = "open"
       => LET card == cur'.card
              blank == env.impl = "main" /\ Trim(FirstSource(card)) = << >>
          IN /\ \A q \in BagToSet(Started(pending)) :
                  q.card = card /\ q.stage = 1 /\ q.src = FirstSource(card)
             /\ (FirstSource(card) # << >> /\ ~blank)
                  => Started(pending) # EmptyBag
             /\ FirstSource(card) = << >>
                  => (Started(pending) = EmptyBag /\ HiddenAndEmpty(modalImage'))]_vars

\* A card with no data-image and a thumbnail has just been opened, and the
\* thumbnail's preload is in flight.
C16_Witness ==
  /\ ev = "open"
  /\ Locator(cur.card) = << >>
  /\ ThumbUrl(cur.card) = ThumbOk
  /\ \E q \in BagToSet(pending) : q.src = ThumbOk /\ q.stage = 1

\* The text each script shows for a card's field: the field, or for an empty
\* title or description the main script's placeholder (script.js shows the
\* empty string).
ShownTitle(card) ==
  IF card.title = << >> /\ env.impl = "main" THEN DefaultTitle ELSE card.title
ShownDesc(card) ==
  IF card.desc = << >> /\ env.impl = "main" THEN DefaultDesc ELSE card.desc
ShownTools(card) ==
  IF env.impl = "main" THEN [text |-> << >>, chips |-> renderTools(card.tools)]
  ELSE [text |-> card.tools, chips |-> << >>]

\* C17: whatever fields the card has or lacks, an open ends with the dialog
\* open and the body's scroll lock on, the title and the description showing
\* the card's text or the placeholder, and the tools region the card's tools;
\* no open ends in an error.
C17_MissingDataNeverBlocks ==
  [][/\ ev' = "open"
          => /\ ariaHidden' = "false"
             /\ overflow' = "hidden"
             /\ modalTitle' = ShownTitle(cur'.card)
             /\ modalDesc' = ShownDesc(cur'.card)
             /\ modalTools' = ShownTools(cur'.card)
     /\ ev' # "error"]_vars

\* A card with no title, description, tools, data-image or thumbnail is open.
C17_Witness ==
  /\ ev = "open"
  /\ cur.card = NoCard
  /\ ariaHidden = "false"
  /\ modalTools = NoTools
  /\ HiddenAndEmpty(modalImage)

\* What a step shows of preloadImage.  No request is in flight for an empty
\* source; a request leaves the preloads in flight only when the browser
\* reports its outcome, one request per report; a success hands the callback
\* exactly the source requested; and a source that is not empty, tried first by
\* an open or as the fallback by a failure, has its request in flight after
\* the step, unless selfSettles says that the script rejects it by itself.
NoEmptyRequest == \A p \in BagToSet(pending') : p.src # << >>

SettledByBrowserOnly ==
  /\ \A p \in BagToSet(pending) :
       Copies(p, pending') < Copies(p, pending)
       => /\ ev' = "settle"
          /\ Copies(p, pending') = Copies(p, pending) - 1
          /\ p.src \in Loads => modalImage'.src = p.src
  /\ ev' = "settle" => BagCardinality(pending (-) pending') = 1

InFlightAfter(src, selfSettles) ==
  (src # << >> /\ ~selfSettles) => \E q \in BagToSet(Started(pending)) : q.src = src

FallbackTried(p) ==
  /\ Settles(p)
  /\ p.stage = 1
  /\ p.src \notin Loads
  /\ ThumbUrl(p.card) # p.src

\* The main script's preloadImage rejects a source of white space only.
BlankRejected(src) == env.impl = "main" /\ Trim(src) = << >>

\* C18 as the spec states it: every source that is not empty is requested and
\* settles only by the browser's report.
C18_PreloadContract ==
  [][/\ NoEmptyRequest
     /\ SettledByBrowserOnly
     /\ ev' = "open" => InFlightAfter(FirstSource(cur'.card), FALSE)
     /\ \A p \in BagToSet(pending) :
          FallbackTried(p) => InFlightAfter(ThumbUrl(p.card), FALSE)]_vars

\* C18 as the code has it: the same, but the main script's preloadImage rejects
\* by itself, without a request, a source of white space only as well.
C18_PreloadContractBlank ==
  [][/\ NoEmptyRequest
     /\ \A p \in BagToSet(pending') : ~BlankRejected(p.src)
     /\ SettledByBrowserOnly
     /\ ev' = "open"
          => InFlightAfter(FirstSource(cur'.card), BlankRejected(FirstSource(cur'.card)))
     /\ \A p \in BagToSet(pending) :
          FallbackTried(p)
          => InFlightAfter(ThumbUrl(p.card), BlankRejected(ThumbUrl(p.card)))]_vars

\* The main script has opened a card whose only source is a thumbnail src of
\* white space: no request is in flight and the image is hidden and empty.
C18_Witness ==
  /\ ev = "open"
  /\ env.impl = "main"
  /\ FirstSource(cur.card) = << SP >>
  /\ pending = EmptyBag
  /\ HiddenAndEmpty(modalImage)

\* C19: an open remembers the element that held the focus before the open,
\* and after an open the focus comes to the close control unless the dialog is
\* closed first.
C19_FocusToCloseControl ==
  /\ [][ev' = "open" => lastFocusedElement' = activeElement]_vars
  /\ (ev = "open") ~> (ariaHidden = "true" \/ activeElement = closeBtn)

\* The main script's deferred focus move has run in the open dialog, and the
\* open button that held the focus is remembered.
C19_Witness ==
  /\ env.impl = "main"
  /\ ev = "timer"
  /\ ariaHidden = "false"
  /\ activeElement = closeBtn
  /\ lastFocusedElement = "openBtn"

\* C20: in an open dialog a visible image has a source, and one that loads;
\* and the image's source only ever becomes the source of a preload that has
\* just succeeded, or empty.
C20_NoBrokenImageVisible ==
  /\ []((ariaHidden = "false" /\ Visible(modalImage))
          => (modalImage.src # << >> /\ modalImage.src \in Loads))
  /\ [][(modalImage'.src # modalImage.src /\ modalImage'.src # << >>)
          => \E p \in BagToSet(pending) :
               Settles(p) /\ p.src \in Loads /\ modalImage'.src = p.src]_vars

\* The open dialog shows the thumbnail of a card whose data-image failed.
C20_Witness ==
  /\ ariaHidden = "false"
  /\ Visible(modalImage)
  /\ modalImage.src = ThumbOk
  /\ cur.open
  /\ Locator(cur.card) = UrlBad

====
